---- MODULE Spec2Model ----
(***************************************************************************)
(* Model of src/server.js (the PostgreSQL-backed gateway, lines 173-484):  *)
(* the shared connection handle `db`, the query_log table, the handlers    *)
(* /api/ask, /api/ingest, /api/feedback and /api/memory (Spec), and the    *)
(* catalog scan of /api/documents (DocSpec).                               *)
(*                                                                         *)
(* The one pg client runs the statements sent on it one at a time, in the  *)
(* order they were sent: `queue` holds those it has yet to settle.  The    *)
(* handlers await pg.query without a timeout: a statement sent on a client *)
(* whose connect has failed may never settle, and the handler that awaits  *)
(* it then never answers.  LiveSpec adds the fairness of the steps that    *)
(* follow an await on the database; an upstream call may stay pending.     *)
(*                                                                         *)
(* A handler runs atomically between two awaits (one JavaScript thread),   *)
(* so every handler is cut at its awaits on I/O: the upstream call         *)
(* (proxyRequest) and each statement sent to the database.  `await         *)
(* getDb()` on an already assigned `db` settles in a microtask and is not  *)
(* a point where another handler can run.                                  *)
(*                                                                         *)
(* Strings that the code trims or concatenates are sequences of            *)
(* one-character strings.  A JavaScript value that may be undefined is a   *)
(* record [def, val].                                                      *)
(***************************************************************************)
EXTENDS Integers, Sequences, FiniteSets, TLC

\* ------------------------------------------------------------------ bounds
\* Number of HTTP requests received in one behaviour.
MaxReq == 3
\* Number of requests in flight at the same time.
MaxInflight == 2
\* Number of points a scan retrieves before the store repeats one chunk.
MaxPoints == 2

\* ------------------------------------------------------- program constants
\* question.trim().length < 5
MinQuestionLen == 5
\* ... ORDER BY created_at DESC LIMIT 100
MemoryLimit == 100

\* ------------------------------------------------------------ JS values
UndefStr == [def |-> FALSE, val |-> <<>>]
Str(s) == [def |-> TRUE, val |-> s]
UndefText == [def |-> FALSE, val |-> ""]
Text(t) == [def |-> TRUE, val |-> t]
UndefNum == [def |-> FALSE, val |-> 0]
Num(n) == [def |-> TRUE, val |-> n]

\* !x for a string held as a character sequence: undefined and "" are falsy.
FalsyStr(x) == ~x.def \/ x.val = <<>>
\* x || d, for text fields and for numbers (undefined, "" and 0 are falsy).
OrText(x, d) == IF x.def /\ x.val # "" THEN x.val ELSE d
OrNum(x, d) == IF x.def /\ x.val # 0 THEN x.val ELSE d
\* parseFloat(x): a number stays itself, undefined gives NaN (falsy, as 0 here).
ParseFloat(x) == IF x.def THEN Num(x.val) ELSE UndefNum

\* The characters String.prototype.trim strips: WhiteSpace and LineTerminator
\* of ECMAScript.  A character that a string of this module cannot hold is
\* written as its code point.
WhiteSpace ==
  { " ", "\t", "\n", "\r", "\f", "U+000B", "U+00A0", "U+1680", "U+2000", "U+2001",
    "U+2002", "U+2003", "U+2004", "U+2005", "U+2006", "U+2007", "U+2008",
    "U+2009", "U+200A", "U+2028", "U+2029", "U+202F", "U+205F", "U+3000",
    "U+FEFF" }
IsSpace(c) == c \in WhiteSpace

\* String.prototype.trim: drops the whitespace at both ends.
RECURSIVE TrimLeft(_)
TrimLeft(s) == IF s # <<>> /\ IsSpace(Head(s)) THEN TrimLeft(Tail(s)) ELSE s
RECURSIVE TrimRight(_)
TrimRight(s) ==
  IF s # <<>> /\ IsSpace(s[Len(s)]) THEN TrimRight(SubSeq(s, 1, Len(s) - 1)) ELSE s
Trim(s) == TrimRight(TrimLeft(s))

\* --------------------------------------------------------------- inputs
hello == <<"h", "e", "l", "l", "o">>

\* req.body.question of POST /api/ask.
Questions ==
  { UndefStr,
    Str(<<"\t", "h", "i", " ", "\n", "U+00A0">>),
    Str(<<"\n">> \o hello \o <<" ">>) }

\* req.body of POST /api/ingest: { title, type, repo, content }.
IngestBodies ==
  { [title |-> UndefStr, type |-> UndefText, repo |-> UndefText, content |-> Str(<<"x">>)],
    [title |-> Str(<<"B">>), type |-> UndefText, repo |-> UndefText, content |-> UndefStr],
    [title |-> Str(<<"\t", "A", "\n">>), type |-> Text("memo"), repo |-> UndefText,
     content |-> Str(<<" ", "x", "\t">>)] }

\* req.body of POST /api/feedback: { question, feedback }.
FeedbackBodies ==
  { [question |-> UndefStr, feedback |-> Text("up")],
    [question |-> Str(hello), feedback |-> Text("up")] }

\* The object an upstream answers with (section 6 of the specification), after
\* proxyRequest has parsed it: every field may be missing.
EmptyObj ==
  [answer |-> UndefText, confidence |-> UndefText, judge_verdict |-> UndefText,
   judge_quality |-> UndefNum, category |-> UndefText, complexity |-> UndefText,
   citation_count |-> UndefNum, routing |-> UndefText, processing_time_s |-> UndefNum]
\* { answer: "30 days", confidence: "HIGH", citation_count: 2 } and a verdict.
AnswerObj ==
  [EmptyObj EXCEPT !.answer = Text("30 days"), !.confidence = Text("HIGH"),
                   !.judge_verdict = Text("APPROVED"), !.judge_quality = Num(4),
                   !.citation_count = Num(2), !.processing_time_s = Num(3)]
UndefResult == [def |-> FALSE, val |-> EmptyObj]
Obj(o) == [def |-> TRUE, val |-> o]

\* What proxyRequest can resolve with for the question-answering endpoint:
\* parsed[0] of an empty array is undefined.
AskResults == { UndefResult, Obj(AnswerObj) }
\* ... and for the ingestion endpoint, whose body is passed through unread.
IngestResults == { UndefResult, Obj(EmptyObj) }

\* ---------------------------------------------------- proxyRequest outcomes
TimeoutMessage(timeoutMs) ==
  "Request timed out (" \o ToString(timeoutMs \div 1000) \o "s)"
InvalidMessage == "Invalid response from upstream"
\* Messages of a transport error (req.on("error", reject)): the upstream
\* closed the socket before it answered, or reset the connection.
TransportMessages == { "socket hang up", "read ECONNRESET" }

Resolved(result) == [state |-> "ok", result |-> result, error |-> ""]
Rejected(message) == [state |-> "err", result |-> UndefResult, error |-> message]
NotCalled == [state |-> "none", result |-> UndefResult, error |-> ""]

\* proxyRequest(targetUrl, payload, timeoutMs), when it settles: resolves with
\* the normalised body, or rejects on invalid JSON, on a timeout or on a
\* transport error.  It need not settle: no step is then taken.
ProxyOutcomes(results, timeoutMs) ==
  { Resolved(x) : x \in results }
    \cup { Rejected(InvalidMessage), Rejected(TimeoutMessage(timeoutMs)) }
    \cup { Rejected(m) : m \in TransportMessages }

\* ------------------------------------------------------ the query_log table
NullText == [def |-> FALSE, val |-> ""]
NullReason == [def |-> FALSE, val |-> <<>>]

\* new Date().toISOString() / NOW(): the reading of the clock, as text.
IsoString(t) == ToString(t)

\* The values bound to $1..$10 of the INSERT in /api/ask.
InsertParams(question, result) ==
  [question |-> Trim(question),
   answer |-> OrText(result.answer, ""),
   confidence |-> OrText(result.confidence, "MEDIUM"),
   verdict |-> OrText(result.judge_verdict, "NEEDS_EDIT"),
   quality_score |-> OrNum(result.judge_quality, 0),
   category |-> OrText(result.category, "general"),
   complexity |-> OrText(result.complexity, "complex"),
   citation_count |-> OrNum(result.citation_count, 0),
   routing |-> OrText(result.routing, "human_review"),
   processing_time_s |-> OrNum(ParseFloat(result.processing_time_s), 0)]

\* The row an INSERT creates: id from the SERIAL sequence, the columns the
\* statement does not name from their defaults (feedback and stale_reason NULL,
\* stale FALSE, created_at NOW()).
NewRow(tbl, p, now) ==
  [id |-> Len(tbl) + 1,
   question |-> p.question, answer |-> p.answer, confidence |-> p.confidence,
   verdict |-> p.verdict, quality_score |-> p.quality_score,
   category |-> p.category, complexity |-> p.complexity,
   citation_count |-> p.citation_count, routing |-> p.routing,
   processing_time_s |-> p.processing_time_s,
   feedback |-> NullText, created_at |-> now,
   stale |-> FALSE, stale_reason |-> NullReason]

\* INSERT INTO query_log (...) VALUES ($1, ..., $10)
\* (InsertReplacesLast: an insert that overwrites the newest row;
\*  InsertUnlessLogged: an insert that skips a question already logged.)
InsertReplacesLast(tbl, p, now) ==
  IF tbl = <<>> THEN <<NewRow(tbl, p, now)>>
  ELSE [tbl EXCEPT ![Len(tbl)] = [NewRow(tbl, p, now) EXCEPT !.id = Len(tbl)]]
InsertUnlessLogged(tbl, p, now) ==
  IF \E i \in 1..Len(tbl) : tbl[i].question = p.question THEN tbl
  ELSE Append(tbl, NewRow(tbl, p, now))
InsertRow(tbl, p, now) == Append(tbl, NewRow(tbl, p, now))

\* `KB updated: ${title.trim()} ingested at ${new Date().toISOString()}`
\* (StaleReasonUntitled: the reason without the title.)
StaleReasonUntitled(title, now) ==
  <<"KB updated: ", " ingested at ", IsoString(now)>>
StaleReason(title, now) ==
  <<"KB updated: ">> \o Trim(title) \o <<" ingested at ", IsoString(now)>>

\* UPDATE query_log SET stale = TRUE, stale_reason = $1 WHERE stale = FALSE
\* (MarkEveryRow: the UPDATE without its WHERE clause;
\*  MarkOldestFresh: the UPDATE reaching one fresh row only.)
MarkEveryRow(tbl, reason) ==
  [i \in 1..Len(tbl) |->
     [tbl[i] EXCEPT !.stale = TRUE, !.stale_reason = [def |-> TRUE, val |-> reason]]]
MarkOldestFresh(tbl, reason) ==
  [i \in 1..Len(tbl) |->
     IF tbl[i].stale = FALSE /\ \A j \in 1..(i - 1) : tbl[j].stale
     THEN [tbl[i] EXCEPT !.stale = TRUE, !.stale_reason = [def |-> TRUE, val |-> reason]]
     ELSE tbl[i]]
MarkAllFreshAsStale(tbl, reason) ==
  [i \in 1..Len(tbl) |->
     IF tbl[i].stale = FALSE
     THEN [tbl[i] EXCEPT !.stale = TRUE, !.stale_reason = [def |-> TRUE, val |-> reason]]
     ELSE tbl[i]]

\* COUNT(*) FILTER (WHERE column = value), SUM for AVG.
CountWhere(tbl, column, value) ==
  Cardinality({i \in 1..Len(tbl) : tbl[i][column] = value})
RECURSIVE SumOf(_, _)
SumOf(tbl, column) ==
  IF tbl = <<>> THEN 0 ELSE Head(tbl)[column] + SumOf(Tail(tbl), column)

\* AVG over no rows is NULL; otherwise the quotient, kept as sum and count.
Avg(tbl, column) ==
  IF tbl = <<>> THEN [def |-> FALSE, sum |-> 0, n |-> 0]
  ELSE [def |-> TRUE, sum |-> SumOf(tbl, column), n |-> Len(tbl)]


\* SELECT COUNT(*) as total, COUNT(*) FILTER (WHERE stale = TRUE) as stale_count, ...
\* (StatsCountingFresh: stale_count filtered on stale = FALSE.)
StatsCountingFresh(tbl) ==
  [total |-> Len(tbl),
   stale_count |-> CountWhere(tbl, "stale", FALSE),
   thumbs_up |-> CountWhere(tbl, "feedback", Text("up")),
   thumbs_down |-> CountWhere(tbl, "feedback", Text("down")),
   avg_quality |-> Avg(tbl, "quality_score"),
   avg_time |-> Avg(tbl, "processing_time_s")]
Stats(tbl) ==
  [total |-> Len(tbl),
   stale_count |-> CountWhere(tbl, "stale", TRUE),
   thumbs_up |-> CountWhere(tbl, "feedback", Text("up")),
   thumbs_down |-> CountWhere(tbl, "feedback", Text("down")),
   avg_quality |-> Avg(tbl, "quality_score"),
   avg_time |-> Avg(tbl, "processing_time_s")]
NoStats == Stats(<<>>)

\* SELECT ... FROM query_log ORDER BY created_at DESC LIMIT 100: rows are
\* appended with a strictly increasing created_at, so newest first is the
\* table reversed.
Newest(tbl, limit) ==
  [i \in 1..(IF Len(tbl) < limit THEN Len(tbl) ELSE limit) |-> tbl[Len(tbl) + 1 - i]]
RecentRows(tbl) == Newest(tbl, MemoryLimit)

\* ----------------------------------------------- GET /api/documents: values
\* const maxPages = 20
maxPages == 20
\* payload.limit of one scroll request
PageLimit == 100
\* timeoutMs of one scroll request
ScrollTimeoutMs == 15000

\* An array that may be undefined.
UndefList == [def |-> FALSE, val |-> <<>>]
List(l) == [def |-> TRUE, val |-> l]
\* x || d for a string held as a character sequence, and for an array (an
\* empty array is truthy).
OrStr(x, d) == IF FalsyStr(x) THEN d ELSE x.val
OrList(x, d) == IF x.def THEN x.val ELSE d

\* String.prototype.startsWith
StartsWith(s, prefix) ==
  Len(s) >= Len(prefix) /\ SubSeq(s, 1, Len(prefix)) = prefix
\* String.prototype.indexOf, counted from 1; 0 when pat does not occur.
IndexOf(s, pat) ==
  LET hits == {i \in 1..(Len(s) + 1 - Len(pat)) : SubSeq(s, i, i + Len(pat) - 1) = pat}
  IN IF hits = {} THEN 0 ELSE CHOOSE i \in hits : \A j \in hits : i <= j
\* String.prototype.replace with a string pattern: the first occurrence only.
Replace(s, pat, by) ==
  LET i == IndexOf(s, pat)
  IN IF i = 0 THEN s
     ELSE SubSeq(s, 1, i - 1) \o by \o SubSeq(s, i + Len(pat), Len(s))
\* s.split(sep)[0]: the text before the first separator, all of s without one.
SplitHead(s, sep) ==
  LET i == IndexOf(s, sep) IN IF i = 0 THEN s ELSE SubSeq(s, 1, i - 1)

FormScheme == <<"f", "o", "r", "m", ":", "/", "/">>
GdriveScheme == <<"g", "d", "r", "i", "v", "e", ":", "/", "/">>
Slash == <<"/">>
KeySeparator == <<":", ":">>
Untitled == <<"U", "n", "t", "i", "t", "l", "e", "d">>
Ungrouped == <<"u", "n", "g", "r", "o", "u", "p", "e", "d">>
General == <<"g", "e", "n", "e", "r", "a", "l">>
GoogleDrive == <<"g", "o", "o", "g", "l", "e", "-", "d", "r", "i", "v", "e">>

\* pt.payload || {} : the payload of a point that has none.
EmptyPayload ==
  [title |-> UndefStr, source_url |-> UndefStr, repo |-> UndefStr,
   document_type |-> UndefText, jurisdictions |-> UndefList, topics |-> UndefList]
NoPayload == [def |-> FALSE, val |-> EmptyPayload]
Payload(p) == [def |-> TRUE, val |-> p]
PayloadOf(pt) == IF pt.payload.def THEN pt.payload.val ELSE EmptyPayload

\* p.title || "Untitled"
TitleOf(p) == OrStr(p.title, Untitled)

\* A derivation that looks at the payload's repo first.
RepoOfRepoFirst(p) ==
  LET sourceUrl == OrStr(p.source_url, <<>>)
  IN IF ~FalsyStr(p.repo) THEN p.repo.val
     ELSE IF StartsWith(sourceUrl, FormScheme)
       THEN LET first == SplitHead(Replace(sourceUrl, FormScheme, <<>>), Slash)
            IN IF first = <<>> THEN General ELSE first
     ELSE IF StartsWith(sourceUrl, GdriveScheme) THEN GoogleDrive
     ELSE Ungrouped
\* The repo of a point, lines 430-439: the first path segment of a form://
\* URL ("general" when it is empty), "google-drive" for a gdrive:// URL, else
\* the payload's repo when truthy, else "ungrouped".
RepoOf(p) ==
  LET sourceUrl == OrStr(p.source_url, <<>>)
  IN IF StartsWith(sourceUrl, FormScheme)
       THEN LET first == SplitHead(Replace(sourceUrl, FormScheme, <<>>), Slash)
            IN IF first = <<>> THEN General ELSE first
     ELSE IF StartsWith(sourceUrl, GdriveScheme) THEN GoogleDrive
     ELSE IF ~FalsyStr(p.repo) THEN p.repo.val
     ELSE Ungrouped

\* const key = `${repo}::${title}`
KeyOf(repo, title) == repo \o KeySeparator \o title

\* The entry docMap[key] gets from the first point that has the key.
NewDocument(p) ==
  [title |-> TitleOf(p), repo |-> RepoOf(p),
   document_type |-> OrText(p.document_type, "unknown"),
   jurisdictions |-> OrList(p.jurisdictions, <<>>),
   topics |-> OrList(p.topics, <<>>),
   chunks |-> 0]

\* Where a key stands among the own properties of a map, 0 when it is absent.
Slot(map, key) ==
  IF \E i \in 1..Len(map) : map[i].key = key
    THEN CHOOSE i \in 1..Len(map) : map[i].key = key
    ELSE 0

\* A grouping in which the last point of a document describes it.
CountPointLatest(docMap, pt) ==
  LET p == PayloadOf(pt)
      key == KeyOf(RepoOf(p), TitleOf(p))
      seeded == IF Slot(docMap, key) = 0
                  THEN Append(docMap, [key |-> key, value |-> NewDocument(p)])
                  ELSE docMap
      i == Slot(seeded, key)
  IN [seeded EXCEPT ![i].value = [NewDocument(p) EXCEPT !.chunks = seeded[i].value.chunks + 1]]
\* docMap after one more point: the own properties in insertion order.  Every
\* key holds "::", so none is a property inherited from Object.prototype.
CountPoint(docMap, pt) ==
  LET p == PayloadOf(pt)
      key == KeyOf(RepoOf(p), TitleOf(p))
      seeded == IF Slot(docMap, key) = 0
                  THEN Append(docMap, [key |-> key, value |-> NewDocument(p)])
                  ELSE docMap
      i == Slot(seeded, key)
  IN [seeded EXCEPT ![i].value.chunks = @ + 1]

\* for (const pt of allPoints) { ... docMap[key].chunks++ }
RECURSIVE GroupPoints(_)
GroupPoints(points) ==
  IF points = <<>> THEN <<>>
  ELSE CountPoint(GroupPoints(SubSeq(points, 1, Len(points) - 1)), points[Len(points)])

\* The value of a decimal digit, and whether a character is one.
IsDigit(c) == \E d \in 0..9 : ToString(d) = c
DigitValue(c) == CHOOSE d \in 0..9 : ToString(d) = c
\* a < b for digit strings of one length.
RECURSIVE DigitsBelow(_, _)
DigitsBelow(a, b) ==
  IF a = <<>> THEN FALSE
  ELSE IF Head(a) # Head(b) THEN DigitValue(Head(a)) < DigitValue(Head(b))
  ELSE DigitsBelow(Tail(a), Tail(b))
\* The largest array index, 2^32 - 2.
MaxIndex == <<"4", "2", "9", "4", "9", "6", "7", "2", "9", "4">>
\* The property name is an array index: the canonical decimal of a number
\* from 0 to 2^32 - 2.
IsIndexKey(key) ==
  /\ key # <<>>
  /\ \A i \in 1..Len(key) : IsDigit(key[i])
  /\ Len(key) > 1 => key[1] # "0"
  /\ Len(key) <= Len(MaxIndex)
  /\ Len(key) = Len(MaxIndex) => ~DigitsBelow(MaxIndex, key)
\* a < b as numbers, for two array indices.
IndexBelow(a, b) == Len(a) < Len(b) \/ (Len(a) = Len(b) /\ DigitsBelow(a, b))

\* Object.values(map): the own properties named by an array index come
\* first, in ascending numeric order, then the others in insertion order.
Values(map) ==
  LET indexed == {i \in 1..Len(map) : IsIndexKey(map[i].key)}
      others == {i \in 1..Len(map) : ~IsIndexKey(map[i].key)}
      At(k) ==
        IF k <= Cardinality(indexed)
          THEN CHOOSE i \in indexed :
                 Cardinality({j \in indexed : IndexBelow(map[j].key, map[i].key)}) = k - 1
          ELSE CHOOSE i \in others :
                 Cardinality({j \in others : j < i}) = k - 1 - Cardinality(indexed)
  IN [k \in 1..Len(map) |-> map[At(k)].value]

\* Names every object literal inherits from Object.prototype: repoMap[name]
\* is then a function (truthy) although repoMap has no such own property.
ObjectPrototypeKeys ==
  { <<"c", "o", "n", "s", "t", "r", "u", "c", "t", "o", "r">>,
    <<"t", "o", "S", "t", "r", "i", "n", "g">>,
    <<"v", "a", "l", "u", "e", "O", "f">>,
    <<"h", "a", "s", "O", "w", "n", "P", "r", "o", "p", "e", "r", "t", "y">>,
    <<"i", "s", "P", "r", "o", "t", "o", "t", "y", "p", "e", "O", "f">>,
    <<"p", "r", "o", "p", "e", "r", "t", "y", "I", "s", "E", "n", "u", "m", "e", "r", "a", "b", "l", "e">>,
    <<"t", "o", "L", "o", "c", "a", "l", "e", "S", "t", "r", "i", "n", "g">>,
    <<"_", "_", "p", "r", "o", "t", "o", "_", "_">>,
    <<"_", "_", "d", "e", "f", "i", "n", "e", "G", "e", "t", "t", "e", "r", "_", "_">>,
    <<"_", "_", "d", "e", "f", "i", "n", "e", "S", "e", "t", "t", "e", "r", "_", "_">>,
    <<"_", "_", "l", "o", "o", "k", "u", "p", "G", "e", "t", "t", "e", "r", "_", "_">>,
    <<"_", "_", "l", "o", "o", "k", "u", "p", "S", "e", "t", "t", "e", "r", "_", "_">> }

\* repoMap after one more document, lines 459-463.  For an inherited name the
\* test !repoMap[doc.repo] is false and the two updates land on the inherited
\* function: repoMap gets no own property.
CountDocument(repoMap, doc) ==
  IF doc.repo \in ObjectPrototypeKeys THEN repoMap
  ELSE LET seeded == IF Slot(repoMap, doc.repo) = 0
                       THEN Append(repoMap,
                              [key |-> doc.repo,
                               value |-> [name |-> doc.repo, doc_count |-> 0,
                                          total_chunks |-> 0]])
                       ELSE repoMap
           i == Slot(seeded, doc.repo)
       IN [seeded EXCEPT ![i].value.doc_count = @ + 1,
                         ![i].value.total_chunks = @ + doc.chunks]

\* for (const doc of Object.values(docMap)) { ... }
RECURSIVE FoldRepos(_)
FoldRepos(docs) ==
  IF docs = <<>> THEN <<>>
  ELSE CountDocument(FoldRepos(SubSeq(docs, 1, Len(docs) - 1)), docs[Len(docs)])

\* One step of the sort: e goes behind every entry with at least its doc_count
\* (Array.prototype.sort is stable).
InsertByDocCount(sorted, e) ==
  LET ahead == Cardinality({i \in 1..Len(sorted) : sorted[i].doc_count >= e.doc_count})
  IN SubSeq(sorted, 1, ahead) \o <<e>> \o SubSeq(sorted, ahead + 1, Len(sorted))

\* .sort((a, b) => b.doc_count - a.doc_count)
RECURSIVE SortByDocCount(_)
SortByDocCount(repos) ==
  IF repos = <<>> THEN <<>>
  ELSE InsertByDocCount(SortByDocCount(SubSeq(repos, 1, Len(repos) - 1)),
                        repos[Len(repos)])

\* The responses of /api/documents.
NoCatalog ==
  [status |-> 0, error |-> "", repos |-> <<>>, documents |-> <<>>,
   total_documents |-> 0, total_chunks |-> 0, shape |-> "none"]
\* res.status(502).json({ error: err.message })
DocumentsError(message) ==
  [NoCatalog EXCEPT !.status = 502, !.error = message, !.shape = "error"]
\* res.json({ repos, documents, total_documents, total_chunks }), lines 425-474.
Catalog(allPoints) ==
  LET documents == Values(GroupPoints(allPoints))
  IN [status |-> 200, error |-> "",
      repos |-> SortByDocCount(Values(FoldRepos(documents))),
      documents |-> documents,
      total_documents |-> Len(documents),
      total_chunks |-> Len(allPoints),
      shape |-> "catalog"]

\* ---------------------------------------------- GET /api/documents: inputs
acme == <<"a", "c", "m", "e">>
\* A chunk of form://acme/p, titled "P"; its repo field is not looked at.
PolicyChunk ==
  [payload |-> Payload(
     [title |-> Str(<<"P">>),
      source_url |-> Str(FormScheme \o acme \o <<"/", "p">>),
      repo |-> Str(<<"h", "r">>),
      document_type |-> Text("policy"),
      jurisdictions |-> List(<<"UK">>),
      topics |-> List(<<"leave">>)])]
\* Another chunk of the same document, described differently.
PolicyMemo ==
  [payload |-> Payload(
     [PolicyChunk.payload.val EXCEPT !.repo = UndefStr,
                                     !.document_type = Text("memo"),
                                     !.jurisdictions = UndefList])]
\* A point stored without a payload.
BarePoint == [payload |-> NoPayload]
\* { repo: "constructor", title: "T" }
ConstructorChunk ==
  [payload |-> Payload(
     [EmptyPayload EXCEPT
        !.repo = Str(<<"c", "o", "n", "s", "t", "r", "u", "c", "t", "o", "r">>),
        !.title = Str(<<"T">>)])]
\* { repo: "7::b", title: "c" } and { repo: "7", title: "b::c" }: one key for
\* both, and the second repo is named by an array index.
ColonRepoChunk ==
  [payload |-> Payload(
     [EmptyPayload EXCEPT !.repo = Str(<<"7", ":", ":", "b">>),
                          !.title = Str(<<"c">>)])]
ColonTitleChunk ==
  [payload |-> Payload(
     [EmptyPayload EXCEPT !.repo = Str(<<"7">>),
                          !.title = Str(<<"b", ":", ":", "c">>)])]

hr == <<"h", "r">>
\* { source_url: "gdrive://f", repo: "hr", title: "P" }
GdriveChunk ==
  [payload |-> Payload(
     [EmptyPayload EXCEPT !.source_url = Str(GdriveScheme \o <<"f">>),
                          !.repo = Str(hr), !.title = Str(<<"P">>)])]
\* { source_url: "form:///p", title: "P" }: the first path segment is empty.
GeneralChunk ==
  [payload |-> Payload(
     [EmptyPayload EXCEPT !.source_url = Str(FormScheme \o <<"/", "p">>),
                          !.title = Str(<<"P">>)])]

\* The points the collection may hold.
Points ==
  { PolicyChunk, PolicyMemo, BarePoint, ConstructorChunk, ColonRepoChunk,
    ColonTitleChunk, GdriveChunk, GeneralChunk }

\* Payloads with every combination of an absent, empty or present source_url
\* and repo.
SourceUrls ==
  { UndefStr, Str(<<>>),
    Str(FormScheme \o acme \o <<"/", "p">>), Str(FormScheme \o acme),
    Str(FormScheme \o <<"/", "p">>), Str(FormScheme),
    Str(GdriveScheme \o <<"f">>), Str(GdriveScheme),
    Str(<<"x">> \o FormScheme \o acme) }
Payloads ==
  { [EmptyPayload EXCEPT !.source_url = u, !.repo = r] :
      u \in SourceUrls, r \in {UndefStr, Str(<<>>), Str(hr)} }

\* The body of a scroll response, and result.result of one.
NoInner == [def |-> FALSE, points |-> UndefList, next_page_offset |-> UndefText]
\* { points, next_page_offset }
FlatPage(points, nextOffset) ==
  Obj([points |-> List(points), next_page_offset |-> nextOffset, result |-> NoInner])
\* { result: { points, next_page_offset }, status: "ok" }
NestedPage(points, nextOffset) ==
  Obj([points |-> UndefList, next_page_offset |-> UndefText,
       result |-> [def |-> TRUE, points |-> List(points),
                   next_page_offset |-> nextOffset]])

\* next_page_offset of a page: absent, or the id of the next point.
Cursors == { UndefText, Text("c1"), Text("c2") }

\* The pages the vector store may answer with once `seen` points were
\* retrieved: any point while fewer than MaxPoints were, the same chunk again
\* after that; an empty array body normalises to undefined.
PagePoints(seen) ==
  {<<>>} \cup { <<pt>> : pt \in IF seen < MaxPoints THEN Points ELSE {PolicyChunk} }
ScrollResults(seen) ==
  { UndefResult }
    \cup { FlatPage(pts, c) : pts \in PagePoints(seen), c \in Cursors }
    \cup { NestedPage(pts, c) : pts \in PagePoints(seen), c \in Cursors }

\* ------------------------------------------------------ GET /api/documents
\* const payload = { limit: 100, with_payload: true, with_vector: false };
\* if (offset) payload.offset = offset;
ScrollPayload(offset) ==
  [limit |-> PageLimit, with_payload |-> TRUE, with_vector |-> FALSE,
   offset |-> IF offset.def /\ offset.val # "" THEN offset ELSE UndefText]

\* result.points || result.result?.points || []
PointsOf(result) ==
  IF result.points.def THEN result.points.val
  ELSE IF result.result.def /\ result.result.points.def THEN result.result.points.val
  ELSE <<>>
\* result.next_page_offset || result.result?.next_page_offset
NextOffsetOf(result) ==
  IF result.next_page_offset.def /\ result.next_page_offset.val # ""
    THEN result.next_page_offset
  ELSE IF result.result.def THEN result.result.next_page_offset
  ELSE UndefText

\* The message of the TypeError thrown by result.points on undefined.
UndefinedPointsMessage == "Cannot read properties of undefined (reading 'points')"

\* page < maxPages
MorePagesInclusive(page) == page <= maxPages
MorePages(page) == page < maxPages
\* if (!nextOffset || points.length === 0) break;
LastPage(nextOffset, points) ==
  ~nextOffset.def \/ nextOffset.val = "" \/ Len(points) = 0

\* The handler before a request: no scan is running.  `requests` counts the
\* calls of proxyRequest; `fetch`, `got` and `next` tell how the last one
\* settled, how many points its page had and which cursor it gave.
NoScan ==
  [pc |-> "idle", page |-> 0, offset |-> UndefText,
   payload |-> ScrollPayload(UndefText), requests |-> 0, fetch |-> "none",
   got |-> 0, next |-> UndefText, allPoints |-> <<>>, resp |-> NoCatalog]

\* The loop reaches `await proxyRequest(...)`, or ends and the catalog goes out.
ScanStep(s) ==
  IF MorePages(s.page)
    THEN [s EXCEPT !.pc = "await", !.payload = ScrollPayload(s.offset),
                   !.requests = @ + 1]
    ELSE [s EXCEPT !.pc = "done", !.resp = Catalog(s.allPoints)]

\* What a failed page fetch answers, lines 475-478.
ScanFailedPartial(s, message) ==
  [s EXCEPT !.pc = "done", !.resp = Catalog(s.allPoints)]
ScanFailed(s, message) ==
  [s EXCEPT !.pc = "done", !.resp = DocumentsError(message)]


\* ------------------------------------------------------------------ state
VARIABLES
  pgUrl,        \* PG_URL is a non-empty connection string
  db,           \* the module variable `db`: "null" or "client"
  conn,         \* the client's connection: "none", "connecting", "connected", "failed"
  initPc,       \* where the start-up call getDb() stands
  tableExists,  \* the relation query_log exists in the database
  log,          \* the rows of query_log, in insertion order
  clock,        \* the wall clock read by NOW() and new Date()
  req,          \* the requests in flight: handler position, inputs, results so far
  last,         \* the request answered by the step just taken, with its response
  queue,        \* the statements sent on the client and not settled, oldest first
  scan          \* the /api/documents handler: its loop variables and its response

vars == <<pgUrl, db, conn, initPc, tableExists, log, clock, req, last, queue, scan>>

Requests == 1..MaxInflight

\* ------------------------------------------------------------- responses
\* A response: the status and the JSON body; `shape` names the keys the body has.
NoBody ==
  [shape |-> "none", error |-> "", result |-> UndefResult, ok |-> FALSE,
   entries |-> <<>>, stats |-> NoStats, total |-> 0, message |-> ""]
NoResponse == [status |-> 0, body |-> NoBody]
\* res.status(code).json({ error: message })
ErrorResponse(code, message) ==
  [status |-> code, body |-> [NoBody EXCEPT !.shape = "error", !.error = message]]
\* res.json(result)
ResultResponse(result) ==
  [status |-> 200, body |-> [NoBody EXCEPT !.shape = "result", !.result = result]]
\* res.json({ ok: true })
OkResponse == [status |-> 200, body |-> [NoBody EXCEPT !.shape = "ok", !.ok = TRUE]]
\* res.json({ entries: [], total: 0, message: "Database not connected" })
DegradedResponse ==
  [status |-> 200,
   body |-> [NoBody EXCEPT !.shape = "degraded", !.message = "Database not connected"]]
\* res.json({ entries: rows, stats: stats.rows[0], total: parseInt(stats.rows[0].total) })
MemoryResponse(rows, stats) ==
  [status |-> 200,
   body |-> [NoBody EXCEPT !.shape = "memory", !.entries = rows, !.stats = stats,
                           !.total = stats.total]]

\* ------------------------------------------------------------- requests
NoSent == [def |-> FALSE, val |-> <<>>]
EmptyBody ==
  [question |-> UndefStr, feedback |-> UndefText, title |-> UndefStr,
   type |-> UndefText, repo |-> UndefText, content |-> UndefStr]

\* A request not yet received.  `outdated` tells of an /api/ask request that
\* the upstream has produced its answer from the knowledge base as it was
\* before an ingestion that has completed since.
NewRequest ==
  [kind |-> "none", pc |-> "new", body |-> EmptyBody, late |-> FALSE,
   sent |-> NoSent, up |-> NotCalled, reason |-> <<>>, entries |-> <<>>,
   dbResult |-> "none", resp |-> NoResponse, outdated |-> FALSE]

\* The start-up getDb() has ended without a usable store: no PG_URL, or
\* db.connect() or the CREATE TABLE was rejected.
StartupFailed == initPc \in {"none", "failed"}

\* The request a handler starts with: its kind, its body and (for the record)
\* whether it arrived after the start-up had failed.
Received(kind, body) ==
  [NewRequest EXCEPT !.kind = kind, !.body = body, !.late = StartupFailed]

\* A request arrives and is handled in the first free slot; every request
\* arrives at a new reading of the clock.
IsNext(r) ==
  /\ clock < MaxReq
  /\ req[r].pc = "new"
  /\ \A x \in 1..(r - 1) : req[x].pc # "new"

\* The request has sent a statement on the handle getDb gave it and awaits
\* its outcome.
AwaitsStatement(rq) == rq.pc \in {"insert", "mark", "feedback", "rows", "stats"}
\* The start-up call of getDb, as an entry of the client's queue.
StartUp == 0

\* Whether the client settles a statement sent on it now.  `db` is assigned
\* before db.connect() is awaited (line 196) and never reset, so a handler may
\* send a statement on a client whose connect has failed.  The pg library is
\* not part of the repository: such a statement is rejected, or it is queued
\* on a client that never becomes ready and pg.query never settles.
Settling == IF conn = "failed" THEN {TRUE, FALSE} ELSE {TRUE}

\* The handler sends `response` and ends.
Respond(rq, response) == [rq EXCEPT !.pc = "done", !.resp = response]

\* Request r goes on as rq: still in flight, or answered; `last` shows the
\* request a step has answered, until the next step.
\* The statement the request awaited has settled and left the client's queue;
\* the statement it awaits next, if any, is sent: it goes to the end of the
\* queue if the client will settle it, and into no queue if it never will.
ContinueIn(others, r, rq) ==
  /\ IF rq.pc = "done"
     THEN req' = [others EXCEPT ![r] = NewRequest] /\ last' = rq
     ELSE req' = [others EXCEPT ![r] = rq] /\ last' = NewRequest
  /\ \E settles \in Settling :
       queue' = LET left == IF AwaitsStatement(req[r]) THEN Tail(queue) ELSE queue
                IN IF AwaitsStatement(rq) /\ settles THEN Append(left, r) ELSE left
Continue(r, rq) == ContinueIn(req, r, rq)

\* An ingestion has changed the knowledge base: of the answers the upstream
\* has still to deliver, those of the requests in `before` were produced from
\* the knowledge base as it was.  `outdated` is a history field about the
\* upstream: the server has no such field, and no guard and no value of the
\* server reads it.
KnowledgeChanged(before) ==
  [x \in Requests |->
     IF x \in before THEN [req[x] EXCEPT !.outdated = TRUE] ELSE req[x]]
\* The /api/ask requests whose upstream call is under way.
AsksUpstream == {x \in Requests : req[x].kind = "ask" /\ req[x].pc = "upstream"}

\* --------------------------------------------------------------- database
ConnectionError == "Connection terminated unexpectedly"
StatementError == "statement failed"
SyntaxError == "syntax error at or near \"ORDER\""
RelationError == "relation \"query_log\" does not exist"

\* The outcome of a statement that settles: "" when it ran, else the message
\* of the error pg.query rejects with (on a client whose connect failed, the
\* connection error).  `fault` is a failure of the backend while the statement
\* runs; `parses` tells whether PostgreSQL accepts the statement's text.
PgError(fault, parses) ==
  IF conn = "failed" THEN ConnectionError
  ELSE IF fault THEN StatementError
  ELSE IF ~parses THEN SyntaxError
  ELSE IF ~tableExists THEN RelationError
  ELSE ""

\* A statement queued on a client that is still connecting waits for the
\* connection to be established or to fail.
CanRun == conn # "connecting"
\* The client runs its statements one at a time, in the order they were sent.
Oldest(r) == queue # <<>> /\ Head(queue) = r
\* The client has the statement of request r to settle.
Queued(r) == \E i \in 1..Len(queue) : queue[i] = r

\* Start-up call of getDb(), line 221: with no PG_URL it returns null; else it
\* has assigned `db` and awaits db.connect().  The database is a fresh one:
\* query_log is created by this process.
Init ==
  /\ pgUrl \in BOOLEAN
  /\ db = IF pgUrl THEN "client" ELSE "null"
  /\ conn = IF pgUrl THEN "connecting" ELSE "none"
  /\ initPc = IF pgUrl THEN "connect" ELSE "none"
  /\ tableExists = FALSE
  /\ log = <<>>
  /\ clock = 0
  /\ req = [r \in Requests |-> NewRequest]
  /\ last = NewRequest
  /\ queue = <<>>
  /\ scan = NoScan

\* await db.connect() settles; once connected, getDb sends the CREATE TABLE,
\* behind the statements that requests have sent on the client meanwhile.
DbConnect(ok) ==
  /\ initPc = "connect"
  /\ conn' = IF ok THEN "connected" ELSE "failed"
  /\ initPc' = IF ok THEN "create" ELSE "failed"
  /\ queue' = IF ok THEN Append(queue, StartUp) ELSE queue
  /\ last' = NewRequest
  /\ UNCHANGED <<scan, pgUrl, db, tableExists, log, clock, req>>

\* await db.query(CREATE TABLE IF NOT EXISTS query_log ...) settles.
DbCreateTable(ok) ==
  /\ initPc = "create"
  /\ Oldest(StartUp)
  /\ tableExists' = ok
  /\ initPc' = IF ok THEN "done" ELSE "failed"
  /\ queue' = Tail(queue)
  /\ last' = NewRequest
  /\ UNCHANGED <<scan, pgUrl, db, conn, log, clock, req>>

\* ------------------------------------------------------ POST /api/ask
\* !question || question.trim().length < 5
\* (TooShortUntrimmed: the length taken without trim().)
TooShortUntrimmed(question) ==
  FalsyStr(question) \/ Len(question.val) < MinQuestionLen
QuestionTooShort(question) ==
  FalsyStr(question) \/ Len(Trim(question.val)) < MinQuestionLen

AskPayload(question) ==
  [question |-> Trim(question.val), channel |-> "qa-form", user |-> "form-user"]

\* What the handler answers once the upstream has answered and the logging
\* try/catch is over; `err` is the error the catch swallowed ("" if none).
AfterLogging(result, err) == ResultResponse(result)

\* The handler up to its first await: validation, then the upstream call.
AskReceive(r, question) ==
  /\ IsNext(r)
  /\ LET rq == Received("ask", [EmptyBody EXCEPT !.question = question]) IN
       Continue(r,
                 IF QuestionTooShort(question)
                 THEN Respond(rq, ErrorResponse(400, "Question too short"))
                 ELSE [rq EXCEPT !.pc = "upstream",
                                 !.sent = [def |-> TRUE, val |-> AskPayload(question)]])
  /\ clock' = clock + 1
  /\ UNCHANGED <<scan, pgUrl, db, conn, initPc, tableExists, log>>

\* proxyRequest settles.  Rejected: 502.  Resolved: getDb(); with no handle the
\* answer is sent; reading a field of an undefined result throws inside the
\* logging try; otherwise the INSERT is sent and awaited.
AskUpstream(r, out) ==
  /\ req[r].kind = "ask" /\ req[r].pc = "upstream"
  /\ LET rq == [req[r] EXCEPT !.up = out] IN
       Continue(r,
                 IF out.state = "err" THEN Respond(rq, ErrorResponse(502, out.error))
                 ELSE IF db = "null"
                   THEN Respond(rq, AfterLogging(out.result, ""))
                 ELSE IF ~out.result.def
                   THEN Respond([rq EXCEPT !.dbResult = "TypeError"],
                                AfterLogging(out.result, "TypeError"))
                 ELSE [rq EXCEPT !.pc = "insert"])
  /\ UNCHANGED <<scan, pgUrl, db, conn, initPc, tableExists, log, clock>>

\* The INSERT settles; the answer is sent whatever its outcome.
AskInsert(r, fault) ==
  /\ req[r].kind = "ask" /\ req[r].pc = "insert"
  /\ CanRun /\ Oldest(r)
  /\ LET err == PgError(fault, TRUE)
         rq == [req[r] EXCEPT !.dbResult = IF err = "" THEN "ok" ELSE err]
     IN /\ log' = IF err = ""
                  THEN InsertRow(log, InsertParams(rq.body.question.val, rq.up.result.val),
                                 clock)
                  ELSE log
        /\ Continue(r, Respond(rq, AfterLogging(rq.up.result, err)))
  /\ UNCHANGED <<scan, pgUrl, db, conn, initPc, tableExists, clock>>

\* ------------------------------------------------------ POST /api/ingest
\* !title || !content
IngestInvalidTitleOnly(body) == FalsyStr(body.title)
IngestInvalid(body) == FalsyStr(body.title) \/ FalsyStr(body.content)

IngestPayload(body) ==
  [title |-> Trim(body.title.val),
   document_type |-> OrText(body.type, "policy"),
   repo |-> OrText(body.repo, "general"),
   content |-> Trim(body.content.val),
   source_url |-> <<"form://", OrText(body.repo, "general"), "/">> \o Trim(body.title.val),
   source |-> "qa-form"]

IngestReceive(r, body) ==
  /\ IsNext(r)
  /\ LET rq == Received("ingest",
                        [EmptyBody EXCEPT !.title = body.title, !.type = body.type,
                                          !.repo = body.repo, !.content = body.content])
     IN Continue(r,
                  IF IngestInvalid(body)
                  THEN Respond(rq, ErrorResponse(400, "Title and content required"))
                  ELSE [rq EXCEPT !.pc = "upstream",
                                  !.sent = [def |-> TRUE, val |-> IngestPayload(body)]])
  /\ clock' = clock + 1
  /\ UNCHANGED <<scan, pgUrl, db, conn, initPc, tableExists, log>>

\* proxyRequest settles.  Rejected: 502.  Resolved: getDb(); with a handle the
\* stale-marking UPDATE is sent with the reason built from the clock.
IngestUpstream(r, out, before) ==
  /\ req[r].kind = "ingest" /\ req[r].pc = "upstream"
  /\ before \subseteq AsksUpstream
  /\ out.state = "err" => before = {}
  /\ LET rq == [req[r] EXCEPT !.up = out]
     IN IF out.state = "err" THEN Continue(r, Respond(rq, ErrorResponse(502, out.error)))
        ELSE IF db = "null"
          THEN ContinueIn(KnowledgeChanged(before), r,
                          Respond(rq, AfterLogging(out.result, "")))
        ELSE ContinueIn(KnowledgeChanged(before), r,
                        [rq EXCEPT !.pc = "mark",
                                   !.reason = StaleReason(rq.body.title.val, clock)])
  /\ UNCHANGED <<scan, pgUrl, db, conn, initPc, tableExists, log, clock>>

\* The UPDATE settles; the upstream result is sent whatever its outcome.
IngestMark(r, fault) ==
  /\ req[r].kind = "ingest" /\ req[r].pc = "mark"
  /\ CanRun /\ Oldest(r)
  /\ LET err == PgError(fault, TRUE)
         rq == [req[r] EXCEPT !.dbResult = IF err = "" THEN "ok" ELSE err]
     IN /\ log' = IF err = "" THEN MarkAllFreshAsStale(log, rq.reason) ELSE log
        /\ Continue(r, Respond(rq, AfterLogging(rq.up.result, err)))
  /\ UNCHANGED <<scan, pgUrl, db, conn, initPc, tableExists, clock>>

\* ------------------------------------------------------ POST /api/feedback
\* UPDATE query_log SET feedback = $1 WHERE question = $2 AND feedback IS NULL
\*   ORDER BY created_at DESC LIMIT 1
\* PostgreSQL's UPDATE has no ORDER BY and no LIMIT clause (its grammar is
\* UPDATE .. SET .. [FROM ..] [WHERE ..] [RETURNING ..]): the server rejects
\* the text when it parses it, before it looks at any row.
FeedbackStatementParses == FALSE

\* getDb(), then with a handle and a question the UPDATE is sent; else { ok: true }.
FeedbackReceive(r, body) ==
  /\ IsNext(r)
  /\ LET rq == Received("feedback",
                        [EmptyBody EXCEPT !.question = body.question,
                                          !.feedback = body.feedback])
     IN Continue(r,
                  IF db # "null" /\ ~FalsyStr(body.question)
                  THEN [rq EXCEPT !.pc = "feedback"]
                  ELSE Respond(rq, OkResponse))
  /\ clock' = clock + 1
  /\ UNCHANGED <<scan, pgUrl, db, conn, initPc, tableExists, log>>

\* The UPDATE settles: a rejection is answered with 500 and its message.
FeedbackUpdate(r, fault) ==
  /\ req[r].kind = "feedback" /\ req[r].pc = "feedback"
  /\ CanRun /\ Oldest(r)
  /\ LET err == PgError(fault, FeedbackStatementParses)
         rq == [req[r] EXCEPT !.dbResult = err]
     IN /\ err # ""
        /\ Continue(r, Respond(rq, ErrorResponse(500, err)))
  /\ UNCHANGED <<scan, pgUrl, db, conn, initPc, tableExists, log, clock>>

\* ------------------------------------------------------ GET /api/memory
\* getDb(); with no handle the degraded body; else the rows query is sent.
MemoryReceive(r) ==
  /\ IsNext(r)
  /\ LET rq == Received("memory", EmptyBody) IN
       Continue(r,
                 IF db = "null" THEN Respond(rq, DegradedResponse)
                 ELSE [rq EXCEPT !.pc = "rows"])
  /\ clock' = clock + 1
  /\ UNCHANGED <<scan, pgUrl, db, conn, initPc, tableExists, log>>

\* The SELECT of the newest rows settles; then the stats query is sent.
MemoryRows(r, fault) ==
  /\ req[r].kind = "memory" /\ req[r].pc = "rows"
  /\ CanRun /\ Oldest(r)
  /\ LET err == PgError(fault, TRUE)
         rq == [req[r] EXCEPT !.dbResult = IF err = "" THEN "ok" ELSE err]
     IN Continue(r,
                  IF err # "" THEN Respond(rq, ErrorResponse(500, err))
                  ELSE [rq EXCEPT !.pc = "stats", !.entries = RecentRows(log)])
  /\ UNCHANGED <<scan, pgUrl, db, conn, initPc, tableExists, log, clock>>

\* The stats SELECT settles; the body is built from both results.
MemoryStats(r, fault) ==
  /\ req[r].kind = "memory" /\ req[r].pc = "stats"
  /\ CanRun /\ Oldest(r)
  /\ LET err == PgError(fault, TRUE)
         rq == [req[r] EXCEPT !.dbResult = IF err = "" THEN "ok" ELSE err]
     IN Continue(r,
                  IF err # "" THEN Respond(rq, ErrorResponse(500, err))
                  ELSE Respond(rq, MemoryResponse(rq.entries, Stats(log))))
  /\ UNCHANGED <<scan, pgUrl, db, conn, initPc, tableExists, log, clock>>

\* ------------------------------------------------------------ the system
Next ==
  \/ \E ok \in BOOLEAN : DbConnect(ok)
  \/ \E ok \in BOOLEAN : DbCreateTable(ok)
  \/ \E r \in Requests, q \in Questions : AskReceive(r, q)
  \/ \E r \in Requests, out \in ProxyOutcomes(AskResults, 300000) : AskUpstream(r, out)
  \/ \E r \in Requests, fault \in BOOLEAN : AskInsert(r, fault)
  \/ \E r \in Requests, b \in IngestBodies : IngestReceive(r, b)
  \/ \E r \in Requests, out \in ProxyOutcomes(IngestResults, 180000),
        before \in SUBSET Requests : IngestUpstream(r, out, before)
  \/ \E r \in Requests, fault \in BOOLEAN : IngestMark(r, fault)
  \/ \E r \in Requests, b \in FeedbackBodies : FeedbackReceive(r, b)
  \/ \E r \in Requests, fault \in BOOLEAN : FeedbackUpdate(r, fault)
  \/ \E r \in Requests : MemoryReceive(r)
  \/ \E r \in Requests, fault \in BOOLEAN : MemoryRows(r, fault)
  \/ \E r \in Requests, fault \in BOOLEAN : MemoryStats(r, fault)

Spec == Init /\ [][Next]_vars

\* The steps of request r that follow the await of a statement.
Settle(r) ==
  \/ \E fault \in BOOLEAN : AskInsert(r, fault)
  \/ \E fault \in BOOLEAN : IngestMark(r, fault)
  \/ \E fault \in BOOLEAN : FeedbackUpdate(r, fault)
  \/ \E fault \in BOOLEAN : MemoryRows(r, fault)
  \/ \E fault \in BOOLEAN : MemoryStats(r, fault)

\* What the database is granted: db.connect() and the CREATE TABLE of the
\* start-up call settle, and so does every statement the client has to settle
\* (the database answers it or the connection ends); the handler then runs
\* on.  Nothing makes a client send a request, and nothing makes an upstream
\* call settle: proxyRequest settles on the end of the response, on an error
\* of the request and on its idle timeout only, so that a response cut after
\* its headers leaves the promise pending and the request at its upstream
\* call for ever.
Fairness ==
  /\ WF_vars(\E ok \in BOOLEAN : DbConnect(ok))
  /\ WF_vars(\E ok \in BOOLEAN : DbCreateTable(ok))
  /\ \A r \in Requests : WF_vars(Settle(r))

LiveSpec == Spec /\ Fairness

\* ------------------------------------------------------ GET /api/documents
\* A request arrives: allPoints = [], offset = null, and the first page is
\* asked for.
DocumentsReceive ==
  /\ scan.pc = "idle"
  /\ scan' = ScanStep(NoScan)
  /\ UNCHANGED <<pgUrl, db, conn, initPc, tableExists, log, clock, req, last, queue>>

\* proxyRequest settles for the page asked for, lines 411-422.
DocumentsPage(out) ==
  /\ scan.pc = "await"
  /\ scan' =
       IF out.state = "err"
         THEN ScanFailed([scan EXCEPT !.fetch = "failed"], out.error)
       ELSE IF ~out.result.def
         THEN ScanFailed([scan EXCEPT !.fetch = "failed"], UndefinedPointsMessage)
       ELSE LET points == PointsOf(out.result.val)
                nextOffset == NextOffsetOf(out.result.val)
                s == [scan EXCEPT !.allPoints = @ \o points, !.got = Len(points),
                                  !.next = nextOffset, !.fetch = "ok"]
            IN IF LastPage(nextOffset, points)
                 THEN [s EXCEPT !.pc = "done", !.resp = Catalog(s.allPoints)]
                 ELSE ScanStep([s EXCEPT !.offset = nextOffset, !.page = @ + 1])
  /\ UNCHANGED <<pgUrl, db, conn, initPc, tableExists, log, clock, req, last, queue>>

\* The process with no database configured, serving one catalog request.
DocInit ==
  /\ pgUrl = FALSE
  /\ db = "null"
  /\ conn = "none"
  /\ initPc = "none"
  /\ tableExists = FALSE
  /\ log = <<>>
  /\ clock = 0
  /\ req = [r \in Requests |-> NewRequest]
  /\ last = NewRequest
  /\ queue = <<>>
  /\ scan = NoScan

DocNext ==
  \/ DocumentsReceive
  \/ \E out \in ProxyOutcomes(ScrollResults(Len(scan.allPoints)), ScrollTimeoutMs) :
       DocumentsPage(out)

DocSpec == DocInit /\ [][DocNext]_vars

\* ======================================================================
\* Properties
\* ======================================================================
\* The step just taken answered a request of this kind.
Answered(kind) == last.pc = "done" /\ last.kind = kind
\* ... an /api/ingest request, with the upstream result and status 200.
IngestAcknowledged == Answered("ingest") /\ last.resp.status = 200
\* ... and its stale-marking UPDATE ran without error.
IngestMarked == IngestAcknowledged /\ last.dbResult = "ok"
\* ... an /api/ask request whose INSERT ran without error.
AskLogged == Answered("ask") /\ last.dbResult = "ok"

AllStale(tbl) == \A i \in 1..Len(tbl) : tbl[i].stale = TRUE
Reason(text) == [def |-> TRUE, val |-> text]
\* s contains sub as a contiguous part.
Contains(s, sub) ==
  \E k \in 0..(Len(s) - Len(sub)) : SubSeq(s, k + 1, k + Len(sub)) = sub
\* No row's stale flag goes back from true to false.
StaleKept == \A i \in 1..Len(log) : i <= Len(log') /\ (log[i].stale => log'[i].stale)

\* C1 (as stated): once an /api/ingest request has been acknowledged as
\* successful, every row of query_log inserted before it is stale, and stays so.
C1_StaleOnceAcknowledged ==
  [][(IngestAcknowledged' => AllStale(log')) /\ StaleKept]_vars

\* C1 (amended): once an /api/ingest request whose stale-marking UPDATE ran
\* without error has been acknowledged, every row inserted before that UPDATE
\* is stale, and stays so.
C1_StaleOnceMarked ==
  [][(IngestMarked' => AllStale(log')) /\ StaleKept]_vars

\* C1 witness: an ingestion is acknowledged whose UPDATE has just staled two rows.
C1_Witness ==
  /\ IngestMarked
  /\ Len(log) >= 2
  /\ \A i \in 1..Len(log) : log[i].stale /\ log[i].stale_reason = Reason(last.reason)

\* C2: a row's stale flag only ever goes from false to true, no row is
\* deleted, and the number of rows never decreases.
C2_LogMonotone ==
  [][/\ Len(log') >= Len(log)
     /\ \A i \in 1..Len(log) :
          /\ log'[i].id = log[i].id
          /\ (log[i].stale => log'[i].stale)]_vars

\* C2 witness: a row staled by an ingestion is still stale after a later insert.
C2_Witness ==
  /\ AskLogged
  /\ Len(log) >= 2
  /\ log[1].stale /\ ~log[Len(log)].stale

\* C3: a successful /api/ask whose INSERT succeeds adds exactly one row, with
\* the trimmed question, stale = false and feedback null, and changes no
\* other row; rows appear in no other way, so N such calls make N rows.
C3_OneRowPerAsk ==
  [][/\ AskLogged' =>
          /\ last'.resp.status = 200
          /\ Len(log') = Len(log) + 1
          /\ SubSeq(log', 1, Len(log)) = log
          /\ log'[Len(log')].question = Trim(last'.body.question.val)
          /\ Len(log'[Len(log')].question) >= MinQuestionLen
          /\ log'[Len(log')].stale = FALSE
          /\ log'[Len(log')].feedback = NullText
     /\ Len(log') # Len(log) => AskLogged']_vars

\* C3 witness: the second of two identical questions is logged as its own row,
\* with the blanks around it removed, while a third identical one is in flight.
C3_Witness ==
  /\ AskLogged
  /\ last.body.question = Str(<<"\n">> \o hello \o <<" ">>)
  /\ Len(log) = 2
  /\ log[1].question = hello /\ log[2].question = hello
  /\ \E r \in Requests : req[r].kind = "ask" /\ req[r].pc = "insert"

\* C4 (as stated): right after an ingestion succeeds the stale count of the
\* summary statistics is the number of rows that were fresh before it plus the
\* number already stale, and the stale count never decreases.
C4_StaleCountOnceAcknowledged ==
  [][/\ IngestAcknowledged' =>
          Stats(log').stale_count =
            CountWhere(log, "stale", FALSE) + CountWhere(log, "stale", TRUE)
     /\ Stats(log').stale_count >= Stats(log).stale_count]_vars

\* C4 (amended): the same, for an ingestion whose stale-marking UPDATE ran
\* without error.
C4_StaleCountOnceMarked ==
  [][/\ IngestMarked' =>
          Stats(log').stale_count =
            CountWhere(log, "stale", FALSE) + CountWhere(log, "stale", TRUE)
     /\ Stats(log').stale_count >= Stats(log).stale_count]_vars

\* C4 witness: after a marking ingestion the statistics count two stale rows.
C4_Witness ==
  /\ IngestMarked
  /\ Stats(log).total = 2
  /\ Stats(log).stale_count = 2

\* In /api/ask and /api/ingest, whenever the upstream call succeeded the
\* response sent is the upstream result with status 200, whether or not a
\* handle was obtained and whether or not the INSERT or the UPDATE failed.
C5_LoggingIsolated ==
  (last.pc = "done" /\ last.kind \in {"ask", "ingest"} /\ last.up.state = "ok")
    => last.resp = ResultResponse(last.up.result)

\* Request r is an /api/ask or /api/ingest request whose upstream call
\* succeeded and whose handler awaits the INSERT or the UPDATE before it
\* answers.
AwaitsLogging(r) ==
  req[r].kind \in {"ask", "ingest"} /\ req[r].pc \in {"insert", "mark"}

\* C5 (as stated): in /api/ask and /api/ingest, whenever the upstream call
\* succeeded the response is the upstream result with a success status,
\* whatever becomes of the handle, the INSERT or the UPDATE; a persistence
\* failure never turns the response into an error, and never prevents the
\* response from being sent: a handler that awaits its logging statement
\* does answer.
C5_FailureIsolation ==
  /\ []C5_LoggingIsolated
  /\ \A r \in Requests : AwaitsLogging(r) ~> ~AwaitsLogging(r)

\* The handlers whose statement the client settles do answer: the response is
\* held back only by a statement that never settles.
SettledLoggingAnswers ==
  \A r \in Requests : (AwaitsLogging(r) /\ Queued(r)) ~> ~AwaitsLogging(r)

\* C6 (as stated): when the store is unavailable at start-up (no connection
\* string, or the connect or the schema creation failed), every later ask,
\* ingest and feedback succeeds without logging and every later /api/memory
\* returns the degraded body { entries: [], total: 0, message }.
C6_DegradedStore ==
  (last.pc = "done" /\ last.late) =>
    /\ last.kind = "memory" => last.resp = DegradedResponse
    /\ last.kind = "feedback" => last.resp = OkResponse
    /\ (last.kind \in {"ask", "ingest"} /\ last.up.state = "ok") => last.resp.status = 200
    /\ log = <<>>

\* The stale reasons an ingestion can stamp.
Reasons ==
  { StaleReason(b.title.val, t) : b \in {x \in IngestBodies : ~IngestInvalid(x)},
                                  t \in 0..MaxReq }

\* C7: the stale-marking update run a second time, with no insert in between,
\* changes no row: every stale flag and every stale_reason stays as the first
\* run left it.
C7_MarkIdempotent ==
  \A r1 \in Reasons, r2 \in Reasons :
    MarkAllFreshAsStale(MarkAllFreshAsStale(log, r1), r2) = MarkAllFreshAsStale(log, r1)

\* C7 witness: a second ingestion's UPDATE has just run on a row that the
\* first one had staled, and the row still carries the first reason.
C7_Witness ==
  /\ IngestMarked
  /\ Len(log) >= 1
  /\ \A i \in 1..Len(log) :
       /\ log[i].stale /\ log[i].stale_reason.def
       /\ log[i].stale_reason # Reason(last.reason)
       /\ log[i].stale_reason.val \in Reasons

\* C8: after a successful ingestion of a document titled T whose UPDATE ran,
\* every row that was fresh has stale = true and a stale_reason containing the
\* trimmed T, and every row that was stale keeps its stale_reason.
C8_StaleReason ==
  [][IngestMarked' =>
       /\ Len(log') = Len(log)
       /\ \A i \in 1..Len(log) :
            IF log[i].stale
            THEN log'[i].stale_reason = log[i].stale_reason
            ELSE /\ log'[i].stale = TRUE
                 /\ log'[i].stale_reason.def
                 /\ Contains(log'[i].stale_reason.val, Trim(last'.body.title.val))
                 /\ Trim(last'.body.title.val) # <<>>]_vars

\* C8 witness: the ingestion of " A" has staled two fresh rows with a reason
\* that names "A".
C8_Witness ==
  /\ IngestMarked
  /\ last.body.title = Str(<<"\t", "A", "\n">>)
  /\ Len(log) = 2
  /\ \A i \in 1..2 :
       /\ log[i].stale
       /\ log[i].stale_reason = Reason(last.reason)
       /\ Contains(log[i].stale_reason.val, <<"A">>)

\* C9: an /api/ask whose question is missing or shorter than 5 characters
\* once trimmed is answered 400, issues no upstream call and inserts or
\* changes no row.
C9_ShortQuestionRejected ==
  [][(Answered("ask")' /\ (~last'.body.question.def
                           \/ Len(Trim(last'.body.question.val)) < MinQuestionLen)) =>
       /\ last'.resp = ErrorResponse(400, "Question too short")
       /\ ~last'.sent.def /\ last'.up = NotCalled
       /\ last'.dbResult = "none"
       /\ log' = log]_vars

\* C9 witness: " hi   " (six characters, two once trimmed) is answered 400.
C9_Witness ==
  /\ Answered("ask")
  /\ last.body.question = Str(<<"\t", "h", "i", " ", "\n", "U+00A0">>)
  /\ last.resp.status = 400

\* The row /api/feedback is meant to update: the newest one with this exact
\* question and no feedback yet (0 if there is none).
FeedbackTarget(tbl, question) ==
  LET hits == {i \in 1..Len(tbl) : tbl[i].question = question /\ ~tbl[i].feedback.def}
  IN IF hits = {} THEN 0 ELSE CHOOSE i \in hits : \A j \in hits : j <= i
\* A failure of the backend itself, as opposed to a rejection of the statement.
BackendFailure == {ConnectionError, StatementError, RelationError}
\* The store is in working order: connected, and query_log exists.
StoreUp == conn = "connected" /\ tableExists

\* C10 (as stated): with the store in working order, /api/feedback with
\* question q and feedback f sets feedback = f on the newest row with question
\* q and no feedback, changes nothing else, and is a successful no-op when
\* there is no such row; a feedback once set is never overwritten.
C10_FeedbackAttached ==
  [][/\ (Answered("feedback")' /\ StoreUp /\ last'.dbResult \notin BackendFailure) =>
          LET q == last'.body.question
              t == IF q.def THEN FeedbackTarget(log, q.val) ELSE 0
          IN /\ last'.resp = OkResponse
             /\ log' = [i \in 1..Len(log) |->
                          IF i = t THEN [log[i] EXCEPT !.feedback = last'.body.feedback]
                          ELSE log[i]]
     /\ \A i \in 1..Len(log) :
          log[i].feedback.def => (i <= Len(log') /\ log'[i].feedback = log[i].feedback)]_vars

\* ----------------------------------------------------------------------
\* The cursor is one the loop goes on with.
Truthy(cursor) == cursor.def /\ cursor.val # ""
\* The scan is over and the response is out.
ScanDone == scan.pc = "done"
\* The loop ran out of pages while the last page still had points and a cursor.
Truncated ==
  ScanDone /\ scan.fetch = "ok" /\ scan.got > 0 /\ Truthy(scan.next)

\* C11: the scan asks for its pages one at a time; the first request carries
\* no cursor, each later one carries the cursor of the page before it and is
\* sent only if that page had points and a cursor; no scan sends more than
\* maxPages (20) requests.
C11_BoundedPagination ==
  /\ scan.requests <= maxPages
  /\ scan.pc = "await" =>
       /\ scan.requests = scan.page + 1
       /\ scan.requests = 1 => ~scan.payload.offset.def
       /\ scan.requests > 1 =>
            /\ scan.fetch = "ok" /\ scan.got > 0 /\ Truthy(scan.next)
            /\ scan.payload.offset = scan.next
  /\ ScanDone => scan.requests >= 1
\* A scan that sent all 20 requests, the last of them with the cursor "c2".
C11_Witness ==
  ScanDone /\ scan.requests = maxPages /\ scan.payload.offset = Text("c2")

\* C12: a scan cut short by the page ceiling does not answer as a complete
\* scan over the same points does.
C12_TruncationSignalled == Truncated => scan.resp # Catalog(scan.allPoints)

\* C13: a failed page fetch is answered with 502 and the error message, with
\* no repos and no documents whatever was retrieved before; a catalog goes out
\* only after a scan whose fetches all succeeded.
C13_NoPartialCatalog ==
  ScanDone =>
    /\ scan.fetch = "failed" =>
         /\ scan.resp.status = 502 /\ scan.resp.shape = "error"
         /\ scan.resp.error # ""
         /\ scan.resp.repos = <<>> /\ scan.resp.documents = <<>>
    /\ scan.resp.status = 200 =>
         /\ scan.fetch = "ok" /\ scan.resp.shape = "catalog"
         /\ scan.resp.total_chunks = Len(scan.allPoints)
    /\ scan.resp.status \in {200, 502}
\* The third page timed out after two pages of points had been retrieved.
C13_Witness ==
  /\ ScanDone /\ scan.fetch = "failed" /\ scan.requests = 3
  /\ Len(scan.allPoints) = 2
  /\ scan.resp = DocumentsError("Request timed out (15s)")

\* ----------------------------------------------------------------------
\* A catalog went out.
CatalogOut == ScanDone /\ scan.resp.status = 200
Range(seq) == {seq[i] : i \in 1..Len(seq)}
\* The derived (repo, title) pair of a point.
PairOf(pt) == <<RepoOf(PayloadOf(pt)), TitleOf(PayloadOf(pt))>>
\* The number of the retrieved points having this pair.
PointsWith(pair) ==
  Cardinality({i \in 1..Len(scan.allPoints) : PairOf(scan.allPoints[i]) = pair})

\* C14: the catalog has exactly one document for each derived (repo, title)
\* pair among the retrieved points, and its chunks is the number of points
\* having that pair.
C14_ChunkCount ==
  CatalogOut =>
    LET docs == scan.resp.documents
        pairs == {PairOf(pt) : pt \in Range(scan.allPoints)}
    IN /\ Len(docs) = Cardinality(pairs)
       /\ \A pair \in pairs :
            \E i \in 1..Len(docs) :
              /\ <<docs[i].repo, docs[i].title>> = pair
              /\ docs[i].chunks = PointsWith(pair)
              /\ \A j \in 1..Len(docs) :
                   <<docs[j].repo, docs[j].title>> = pair => j = i

\* The orderings of n things.
Orderings(n) ==
  {f \in [1..n -> 1..n] : \A i, j \in 1..n : f[i] = f[j] => i = j}
Reordered(points, f) == [i \in 1..Len(points) |-> points[f[i]]]
\* The grouping key of a document and its chunk count.
KeyCounts(catalog) ==
  {<<KeyOf(d.repo, d.title), d.chunks>> : d \in Range(catalog.documents)}
\* The points that share a grouping key are described alike.
DescribedAlike(points) ==
  \A a, b \in Range(points) :
    KeyOf(PairOf(a)[1], PairOf(a)[2]) = KeyOf(PairOf(b)[1], PairOf(b)[2])
      => NewDocument(PayloadOf(a)) = NewDocument(PayloadOf(b))
\* The first of the points that has the grouping key of this document.
FirstWith(points, d) ==
  LET at == {i \in 1..Len(points) :
               KeyOf(PairOf(points[i])[1], PairOf(points[i])[2]) = KeyOf(d.repo, d.title)}
  IN points[CHOOSE i \in at : \A j \in at : i <= j]

\* C15 as stated: the points in any other order give the same documents,
\* descriptive fields and chunks included, and the same repo summaries.
C15_OrderIndependent ==
  (CatalogOut /\ Len(scan.allPoints) <= MaxPoints) =>
    \A f \in Orderings(Len(scan.allPoints)) :
      LET other == Catalog(Reordered(scan.allPoints, f))
      IN /\ Range(other.documents) = Range(scan.resp.documents)
         /\ Range(other.repos) = Range(scan.resp.repos)

\* C15, amended: the points in any other order give the same grouping keys
\* with the same chunks and the same totals; a document carries the title,
\* repo, document_type, jurisdictions and topics of the first point that has
\* its key, so the documents and the repo summaries are the same in any order
\* when points sharing a key are described alike.
C15_CountsOrderIndependent ==
  (CatalogOut /\ Len(scan.allPoints) <= MaxPoints) =>
    /\ \A d \in Range(scan.resp.documents) :
         [d EXCEPT !.chunks = 0] = NewDocument(PayloadOf(FirstWith(scan.allPoints, d)))
    /\ \A f \in Orderings(Len(scan.allPoints)) :
         LET other == Catalog(Reordered(scan.allPoints, f))
         IN /\ KeyCounts(other) = KeyCounts(scan.resp)
            /\ other.total_documents = scan.resp.total_documents
            /\ other.total_chunks = scan.resp.total_chunks
            /\ DescribedAlike(scan.allPoints) =>
                 /\ Range(other.documents) = Range(scan.resp.documents)
                 /\ Range(other.repos) = Range(scan.resp.repos)
\* Two chunks of one document, the first a policy and the second a memo: the
\* document is a policy with two chunks.
C15_Witness ==
  /\ CatalogOut /\ scan.allPoints = <<PolicyChunk, PolicyMemo>>
  /\ Len(scan.resp.documents) = 1
  /\ scan.resp.documents[1].document_type = "policy"
  /\ scan.resp.documents[1].chunks = 2

\* The text of s before the first c.
RECURSIVE Before(_, _)
Before(s, c) ==
  IF s = <<>> \/ Head(s) = c THEN <<>> ELSE <<Head(s)>> \o Before(Tail(s), c)
\* The repo the precedence rule gives a payload.
RuleRepo(p) ==
  LET url == IF p.source_url.def THEN p.source_url.val ELSE <<>>
      segment == Before(SubSeq(url, Len(FormScheme) + 1, Len(url)), "/")
  IN IF StartsWith(url, FormScheme)
       THEN (IF segment = <<>> THEN General ELSE segment)
     ELSE IF StartsWith(url, GdriveScheme) THEN GoogleDrive
     ELSE IF p.repo.def /\ p.repo.val # <<>> THEN p.repo.val
     ELSE Ungrouped

\* The derivation follows the rule on every payload.
RuleKept ==
  \A p \in Payloads \cup {PayloadOf(pt) : pt \in Points} :
    RepoOf(p) # <<>> /\ RepoOf(p) = RuleRepo(p)

\* C16: whatever of payload, source_url and repo is present, absent or empty,
\* the repo of a point is one non-empty string: the first path segment of a
\* form:// URL ("general" if it is empty), else "google-drive" for a gdrive://
\* URL, else the payload's non-empty repo, else "ungrouped"; the documents of
\* a catalog carry the repo so derived from the point that seeded them.
C16_RepoDerivation ==
  /\ RuleKept
  /\ CatalogOut =>
       \A d \in Range(scan.resp.documents) :
         d.repo # <<>> /\ d.repo = RuleRepo(PayloadOf(FirstWith(scan.allPoints, d)))
\* A catalog over a gdrive:// point that has a repo field and a form:// point
\* with an empty first segment.
C16_Witness ==
  /\ CatalogOut /\ scan.allPoints = <<GdriveChunk, GeneralChunk>>
  /\ scan.resp.documents[1].repo = GoogleDrive
  /\ scan.resp.documents[2].repo = General

\* C18: every repo that has a document is in repos once, with doc_count the
\* number of its documents and total_chunks the sum of their chunks; the
\* doc_counts add up to total_documents and the total_chunks to the response's
\* total_chunks, the number of points retrieved; repos is in non-increasing
\* order of doc_count.
C18_RepoSummaries ==
  CatalogOut =>
    LET docs == scan.resp.documents
        repos == scan.resp.repos
        Of(name) == {i \in 1..Len(docs) : docs[i].repo = name}
        Chunks(name) == SumOf(SelectSeq(docs, LAMBDA d : d.repo = name), "chunks")
    IN /\ \A d \in Range(docs) :
            Cardinality({i \in 1..Len(repos) : repos[i].name = d.repo}) = 1
       /\ \A i \in 1..Len(repos) :
            /\ repos[i].doc_count = Cardinality(Of(repos[i].name))
            /\ repos[i].doc_count >= 1
            /\ repos[i].total_chunks = Chunks(repos[i].name)
       /\ SumOf(repos, "doc_count") = scan.resp.total_documents
       /\ SumOf(repos, "total_chunks") = scan.resp.total_chunks
       /\ scan.resp.total_chunks = Len(scan.allPoints)
       /\ \A i \in 1..(Len(repos) - 1) : repos[i].doc_count >= repos[i + 1].doc_count

\* ----------------------------------------------------------------------
\* The body of an /api/ingest request lacks a title or a content.
Incomplete(body) ==
  ~body.title.def \/ body.title.val = <<>> \/ ~body.content.def \/ body.content.val = <<>>

\* C17: the stale-marking UPDATE of an /api/ingest request is sent only after
\* its upstream call succeeded and has settled before the 200 goes out; a
\* request answered 400 (title or content missing) or 502 (upstream failed)
\* has changed no row, and one answered 400 has made no upstream call.
C17_IngestFrame ==
  [][/\ \A r \in Requests :
          (req'[r].kind = "ingest" /\ req'[r].pc = "mark") =>
            /\ req'[r].up.state = "ok"
            /\ req'[r].resp = NoResponse
            /\ log' = log \/ req[r].pc = "mark"
     /\ Answered("ingest")' =>
          /\ last'.resp.status \in {200, 400, 502}
          /\ Incomplete(last'.body) <=> last'.resp.status = 400
          /\ last'.resp.status = 400 =>
               /\ last'.up = NotCalled /\ ~last'.sent.def
               /\ last'.dbResult = "none" /\ log' = log
          /\ last'.resp.status = 502 =>
               /\ last'.up.state = "err"
               /\ last'.dbResult = "none" /\ log' = log
          /\ last'.dbResult # "none" =>
               /\ last'.up.state = "ok" /\ last'.resp.status = 200
          /\ (last'.resp.status = 200 /\ db # "null") => last'.dbResult # "none"
          /\ log' # log => last'.dbResult = "ok"]_vars
\* An ingestion answered 200 after its upstream call succeeded and its UPDATE
\* staled the one row logged.
C17_Witness ==
  /\ Answered("ingest") /\ last.resp.status = 200
  /\ last.up.state = "ok" /\ last.dbResult = "ok" /\ last.sent.def
  /\ Len(log) = 1 /\ log[1].stale

\* C19: once an /api/ask and a concurrent /api/ingest are both answered, the
\* row logged for an answer that the upstream produced before the ingestion
\* changed the knowledge base is stale: the ask leaves no fresh row.
C19_OutdatedAnswerStale ==
  [][(AskLogged' /\ last'.outdated) => log'[Len(log')].stale]_vars

\* C20: a request holds a handle from getDb only once the connection is
\* established and the CREATE TABLE has completed, so no statement of a
\* request runs ahead of the CREATE TABLE; the process has one client, made
\* only when PG_URL is set.
C20_HandleReady ==
  /\ db = "client" => pgUrl
  /\ \A r \in Requests :
       AwaitsStatement(req[r]) => (db = "client" /\ conn = "connected" /\ tableExists)

====
